---------------------------- MODULE Spec2Model ----------------------------
(***************************************************************************)
(* Model of the YewChat client component                                   *)
(* (YewChat/src/components/chat.rs): the Chat component's state (users,    *)
(* messages, the input field, the outbound channel wss.tx), its create,    *)
(* update (HandleMsg / SubmitMessage) and view steps, and the serde_json   *)
(* conversions those steps apply to the wire texts.                        *)
(***************************************************************************)
EXTENDS Integers, Sequences, FiniteSets, TLC

(***************************************************************************)
(* Bounds of the model.                                                    *)
(***************************************************************************)
MaxEvents == 3
ChannelCap == 1

(***************************************************************************)
(* Texts.  A Rust String is modelled by its syntax: either characters that *)
(* are not a JSON document (w holds them, j is empty) or one JSON document *)
(* (j holds its value).  A JSON string value holds a text again, which is  *)
(* how the nested payload of a "message" envelope is carried.              *)
(***************************************************************************)
Plain(s) == [w |-> s, j |-> <<>>]
Doc(v) == [w |-> "", j |-> <<v>>]

JNull == [t |-> "null"]
JNum == [t |-> "num"]
JStr(s) == [t |-> "str", s |-> s]
JArr(a) == [t |-> "arr", a |-> a]
JObj(f) == [t |-> "obj", f |-> f]
Field(k, v) == [k |-> k, v |-> v]

(* Option<T> and Result<T, E> *)
None == <<>>
Some(x) == <<x>>
Err == [ok |-> FALSE]
Ok(v) == [ok |-> TRUE, val |-> v]

(***************************************************************************)
(* enum MsgTypes, #[serde(rename_all = "lowercase")]                       *)
(***************************************************************************)
MsgTypes == {"Users", "Register", "Message"}
MsgTypesName(v) ==
    CASE v = "Users" -> "users"
      [] v = "Register" -> "register"
      [] v = "Message" -> "message"

(* struct WebSocketMessage, struct MessageData, struct UserProfile *)
WebSocketMessage(mt, da, d) == [message_type |-> mt, data_array |-> da, data |-> d]
MessageData(f, m) == [from |-> f, message |-> m]
UserProfile(n, a) == [name |-> n, avatar |-> a]

(***************************************************************************)
(* Serialize for WebSocketMessage (serde_json::to_string): the fields in   *)
(* declaration order under their camelCase names, None as null.            *)
(***************************************************************************)
(* a variant of to_string that keeps the Rust field names (no camelCase) *)
to_string_snake_case(msg) ==
    Doc(JObj(<<
        Field("message_type", JStr(Plain(MsgTypesName(msg.message_type)))),
        Field("data_array",
              IF msg.data_array = None THEN JNull
              ELSE JArr([i \in DOMAIN msg.data_array[1] |-> JStr(msg.data_array[1][i])])),
        Field("data",
              IF msg.data = None THEN JNull ELSE JStr(msg.data[1])) >>))

to_string(msg) ==
    Doc(JObj(<<
        Field("messageType", JStr(Plain(MsgTypesName(msg.message_type)))),
        Field("dataArray",
              IF msg.data_array = None THEN JNull
              ELSE JArr([i \in DOMAIN msg.data_array[1] |-> JStr(msg.data_array[1][i])])),
        Field("data",
              IF msg.data = None THEN JNull ELSE JStr(msg.data[1])) >>))

(***************************************************************************)
(* Deserialize (serde_json::from_str with the derived visitors).           *)
(***************************************************************************)
Keys(f, k) == {i \in DOMAIN f : f[i].k = k}
Get(f, k) == f[CHOOSE i \in Keys(f, k) : TRUE].v
NoDuplicates(f, names) == \A k \in names : Cardinality(Keys(f, k)) <= 1

(* a unit variant of MsgTypes: its lowercase name as a string, or the map
   form {"name": null} *)
de_MsgTypes(v) ==
    LET pick(n) == Ok(CHOOSE m \in MsgTypes : MsgTypesName(m) = n)
        known(n) == \E m \in MsgTypes : MsgTypesName(m) = n
    IN  CASE v.t = "str" ->
               IF v.s.j = <<>> /\ known(v.s.w) THEN pick(v.s.w) ELSE Err
          [] v.t = "obj" ->
               IF Len(v.f) = 1 /\ known(v.f[1].k) /\ v.f[1].v.t = "null"
               THEN pick(v.f[1].k) ELSE Err
          [] OTHER -> Err

de_String(v) == IF v.t = "str" THEN Ok(v.s) ELSE Err

de_OptionString(v) ==
    CASE v.t = "null" -> Ok(None)
      [] v.t = "str" -> Ok(Some(v.s))
      [] OTHER -> Err

de_OptionVecString(v) ==
    CASE v.t = "null" -> Ok(None)
      [] v.t = "arr" ->
           IF \A i \in DOMAIN v.a : v.a[i].t = "str"
           THEN Ok(Some([i \in DOMAIN v.a |-> v.a[i].s]))
           ELSE Err
      [] OTHER -> Err

WsmFields == {"messageType", "dataArray", "data"}

(* the three field values of a WebSocketMessage, from a JSON object (by
   name, unknown names ignored, an absent Option field is None) or from a
   JSON array (by position, exactly three elements); <<>> when neither *)
WsmParts(v) ==
    CASE v.t = "obj" ->
           IF NoDuplicates(v.f, WsmFields) /\ Keys(v.f, "messageType") # {}
           THEN << <<Get(v.f, "messageType"),
                     IF Keys(v.f, "dataArray") = {} THEN JNull ELSE Get(v.f, "dataArray"),
                     IF Keys(v.f, "data") = {} THEN JNull ELSE Get(v.f, "data")>> >>
           ELSE <<>>
      [] v.t = "arr" -> IF Len(v.a) = 3 THEN <<v.a>> ELSE <<>>
      [] OTHER -> <<>>

from_str_WebSocketMessage(s) ==
    IF s.j = <<>> THEN Err
    ELSE LET p == WsmParts(s.j[1])
         IN  IF p = <<>> THEN Err
             ELSE LET mt == de_MsgTypes(p[1][1])
                      da == de_OptionVecString(p[1][2])
                      d == de_OptionString(p[1][3])
                  IN  IF mt.ok /\ da.ok /\ d.ok
                      THEN Ok(WebSocketMessage(mt.val, da.val, d.val))
                      ELSE Err

MdFields == {"from", "message"}

MdParts(v) ==
    CASE v.t = "obj" ->
           IF NoDuplicates(v.f, MdFields) /\ \A k \in MdFields : Keys(v.f, k) # {}
           THEN << <<Get(v.f, "from"), Get(v.f, "message")>> >>
           ELSE <<>>
      [] v.t = "arr" -> IF Len(v.a) = 2 THEN <<v.a>> ELSE <<>>
      [] OTHER -> <<>>

from_str_MessageData(s) ==
    IF s.j = <<>> THEN Err
    ELSE LET p == MdParts(s.j[1])
         IN  IF p = <<>> THEN Err
             ELSE LET f == de_String(p[1][1])
                      m == de_String(p[1][2])
                  IN  IF f.ok /\ m.ok THEN Ok(MessageData(f.val, m.val)) ELSE Err


(***************************************************************************)
(* The texts of the model: the local usernames the context can hold, what  *)
(* the user can type, and the frames the event bus can deliver.            *)
(***************************************************************************)
Usernames == {Plain("alice"), Plain("bob")}
InputTexts == {Plain("hi")}

Payload(f, m) ==
    Doc(JObj(<<Field("from", JStr(Plain(f))), Field("message", JStr(Plain(m)))>>))
Tagged(tag, da, d) ==
    Doc(JObj(<<Field("messageType", JStr(Plain(tag))), Field("dataArray", da),
               Field("data", d)>>))
Names(ns) == JArr([i \in DOMAIN ns |-> JStr(Plain(ns[i]))])

FrameGarbage == Plain("not json")
FrameBadTag == Tagged("USERS", Names(<<"alice">>), JNull)
FrameUsersAB == Tagged("users", Names(<<"alice", "bob">>), JNull)
FrameUsersDup == Tagged("users", Names(<<"bob", "bob">>), JNull)
FrameUsersEmpty == Tagged("users", Names(<<>>), JNull)
FrameUsersNull == Tagged("users", JNull, JStr(Plain("x")))
FrameMsgAlice == Tagged("message", JNull, JStr(Payload("alice", "hi")))
FrameMsgBob == Tagged("message", JNull, JStr(Payload("bob", "cat.gif")))
FrameMsgNull == Tagged("message", JNull, JNull)
FrameMsgRaw == Tagged("message", JNull, JStr(Plain("hi")))
FrameMsgPartial ==
    Tagged("message", JNull, JStr(Doc(JObj(<<Field("from", JStr(Plain("alice")))>>))))
FrameRegister == Tagged("register", JNull, JStr(Plain("alice")))

Frames ==
    {FrameGarbage, FrameBadTag, FrameUsersAB, FrameUsersDup, FrameUsersEmpty,
     FrameUsersNull, FrameMsgAlice, FrameMsgBob, FrameMsgNull, FrameMsgRaw,
     FrameMsgPartial, FrameRegister}

(***************************************************************************)
(* State.                                                                  *)
(*   user        the User context's username                               *)
(*   phase       "start" before create, "live", "ended" once dropped       *)
(*   users, messages, chat_input, wss     the fields of struct Chat;       *)
(*               chat_input is None until view attaches the input element, *)
(*               then Some(value); wss is the outbound channel wss.tx      *)
(*   panicked    a panic (unwrap on None/Err, index out of bounds) ended   *)
(*               the component                                             *)
(*   ret         what the latest update returned                           *)
(*   render      a call of view is due                                     *)
(*   received    the texts delivered to HandleMsg so far, in order         *)
(*   attempts    the try_send calls made so far, in order, with results    *)
(***************************************************************************)
VARIABLES user, phase, users, messages, chat_input, wss, panicked, ret, render,
          received, attempts

vars == <<user, phase, users, messages, chat_input, wss, panicked, ret, render,
          received, attempts>>

Events == Len(received) + Len(attempts)

(***************************************************************************)
(* WebsocketService: the outbound channel behind wss.tx.                   *)
(***************************************************************************)
WebsocketService_new == {[open |-> o, buf |-> <<>>] : o \in BOOLEAN}

try_send(w, text) ==
    IF w.open /\ Len(w.buf) < ChannelCap
    THEN [res |-> TRUE, wss |-> [w EXCEPT !.buf = Append(@, text)]]
    ELSE [res |-> FALSE, wss |-> w]

Attempt(text, res) == [text |-> text, ok |-> res]

Init ==
    /\ user \in Usernames
    /\ phase = "start"
    /\ users = <<>>
    /\ messages = <<>>
    /\ chat_input = None
    /\ wss = [open |-> FALSE, buf |-> <<>>]
    /\ panicked = FALSE
    /\ ret = FALSE
    /\ render = FALSE
    /\ received = <<>>
    /\ attempts = <<>>

(***************************************************************************)
(* Chat::create                                                            *)
(***************************************************************************)
(* a variant of RegisterMessage that carries the username in data_array *)
RegisterMessageInArray(username) ==
    WebSocketMessage("Register", Some(<<username>>), None)

RegisterMessage(username) == WebSocketMessage("Register", None, Some(username))

(* a variant of Create that unwraps the result of try_send *)
CreateUnwrappingSend ==
    /\ phase = "start"
    /\ \E w \in WebsocketService_new :
         LET text == to_string(RegisterMessage(user))
             r == try_send(w, text)
         IN  /\ wss' = r.wss
             /\ attempts' = Append(attempts, Attempt(text, r.res))
             /\ panicked' = ~r.res
    /\ users' = <<>>
    /\ messages' = <<>>
    /\ chat_input' = None
    /\ phase' = "live"
    /\ render' = TRUE
    /\ UNCHANGED <<user, ret, received>>

Create ==
    /\ phase = "start"
    /\ \E w \in WebsocketService_new :
         LET text == to_string(RegisterMessage(user))
             r == try_send(w, text)
         IN  /\ wss' = r.wss
             /\ attempts' = Append(attempts, Attempt(text, r.res))
    /\ users' = <<>>
    /\ messages' = <<>>
    /\ chat_input' = None
    /\ phase' = "live"
    /\ render' = TRUE
    /\ UNCHANGED <<user, panicked, ret, received>>

(***************************************************************************)
(* Chat::update, Msg::HandleMsg(s)                                         *)
(***************************************************************************)
Avatar(u) ==
    Plain("https://avatars.dicebear.com/api/adventurer-neutral/" \o u.w \o ".svg")

Profiles(names) == [i \in DOMAIN names |-> UserProfile(names[i], Avatar(names[i]))]

unwrap_or_default(o) == IF o = None THEN <<>> ELSE o[1]

(* the outcome of a handler: whether it panicked, the fields after it and
   its return value *)
Outcome(p, us, ms, r) == [panic |-> p, users |-> us, messages |-> ms, ret |-> r]

(* a variant of OnUsers that extends the roster instead of replacing it *)
OnUsersMerging(us, ms, msg) ==
    Outcome(FALSE, us \o Profiles(unwrap_or_default(msg.data_array)), ms, TRUE)

(* a variant of OnUsers that asks for a render only when the roster changed *)
OnUsersReportingChange(us, ms, msg) ==
    Outcome(FALSE, Profiles(unwrap_or_default(msg.data_array)), ms,
            us # Profiles(unwrap_or_default(msg.data_array)))

(* a variant of OnUsers that drops the messages of senders who left *)
OnUsersPruningLog(us, ms, msg) ==
    Outcome(FALSE, Profiles(unwrap_or_default(msg.data_array)),
            SelectSeq(ms, LAMBDA m :
                \E i \in DOMAIN unwrap_or_default(msg.data_array) :
                    unwrap_or_default(msg.data_array)[i] = m.from),
            TRUE)

(* MsgTypes::Users => ... *)
OnUsers(us, ms, msg) ==
    Outcome(FALSE, Profiles(unwrap_or_default(msg.data_array)), ms, TRUE)

(* a variant of OnMessage that puts the new message first *)
OnMessagePrepending(us, ms, msg) ==
    IF msg.data = None THEN Outcome(TRUE, us, ms, FALSE)
    ELSE LET md == from_str_MessageData(msg.data[1])
         IN  IF ~md.ok THEN Outcome(TRUE, us, ms, FALSE)
             ELSE Outcome(FALSE, us, <<md.val>> \o ms, TRUE)

(* a variant of OnMessage that keeps only the latest message *)
OnMessageKeepingLatest(us, ms, msg) ==
    IF msg.data = None THEN Outcome(TRUE, us, ms, FALSE)
    ELSE LET md == from_str_MessageData(msg.data[1])
         IN  IF ~md.ok THEN Outcome(TRUE, us, ms, FALSE)
             ELSE Outcome(FALSE, us, <<md.val>>, TRUE)

(* MsgTypes::Message => ...: both unwraps panic before anything is written *)
OnMessage(us, ms, msg) ==
    IF msg.data = None THEN Outcome(TRUE, us, ms, FALSE)
    ELSE LET md == from_str_MessageData(msg.data[1])
         IN  IF ~md.ok THEN Outcome(TRUE, us, ms, FALSE)
             ELSE Outcome(FALSE, us, Append(ms, md.val), TRUE)

(* a variant of HandleMsgResult whose last arm asks for a render *)
HandleMsgResultRenderingOther(us, ms, s) ==
    LET msg == from_str_WebSocketMessage(s)
    IN  IF ~msg.ok THEN Outcome(TRUE, us, ms, FALSE)
        ELSE CASE msg.val.message_type = "Users" -> OnUsers(us, ms, msg.val)
               [] msg.val.message_type = "Message" -> OnMessage(us, ms, msg.val)
               [] OTHER -> Outcome(FALSE, us, ms, TRUE)

(* Msg::HandleMsg(s): the unwrap of the envelope, then the match *)
HandleMsgResult(us, ms, s) ==
    LET msg == from_str_WebSocketMessage(s)
    IN  IF ~msg.ok THEN Outcome(TRUE, us, ms, FALSE)
        ELSE CASE msg.val.message_type = "Users" -> OnUsers(us, ms, msg.val)
               [] msg.val.message_type = "Message" -> OnMessage(us, ms, msg.val)
               [] OTHER -> Outcome(FALSE, us, ms, FALSE)

(* a variant of HandleMsg whose callback still reaches a dropped component *)
HandleMsgAfterDrop(s) ==
    /\ phase \in {"live", "ended"}
    /\ ~panicked
    /\ Events < MaxEvents + 1
    /\ LET r == HandleMsgResult(users, messages, s)
       IN  /\ panicked' = r.panic
           /\ users' = r.users
           /\ messages' = r.messages
           /\ ret' = IF r.panic THEN ret ELSE r.ret
           /\ render' = IF r.panic THEN render ELSE (render \/ r.ret)
    /\ received' = Append(received, s)
    /\ UNCHANGED <<user, phase, chat_input, wss, attempts>>

HandleMsg(s) ==
    /\ phase = "live"
    /\ ~panicked
    /\ Events < MaxEvents + 1
    /\ LET r == HandleMsgResult(users, messages, s)
       IN  /\ panicked' = r.panic
           /\ users' = r.users
           /\ messages' = r.messages
           /\ ret' = IF r.panic THEN ret ELSE r.ret
           /\ render' = IF r.panic THEN render ELSE (render \/ r.ret)
    /\ received' = Append(received, s)
    /\ UNCHANGED <<user, phase, chat_input, wss, attempts>>

(***************************************************************************)
(* Chat::update, Msg::SubmitMessage                                        *)
(***************************************************************************)
(* a variant of OutboundMessage tagged like the envelope of create *)
OutboundMessageAsRegister(value) == WebSocketMessage("Register", None, Some(value))

OutboundMessage(value) == WebSocketMessage("Message", None, Some(value))

(* a variant of SubmitMessage that clears the input only after a send that
   succeeded *)
SubmitMessageKeepingInputOnError ==
    /\ phase = "live"
    /\ ~panicked
    /\ chat_input # None
    /\ Events < MaxEvents + 1
    /\ LET text == to_string(OutboundMessage(chat_input[1]))
           r == try_send(wss, text)
       IN  /\ wss' = r.wss
           /\ attempts' = Append(attempts, Attempt(text, r.res))
           /\ chat_input' = IF r.res THEN Some(Plain("")) ELSE chat_input
    /\ ret' = FALSE
    /\ UNCHANGED <<user, phase, users, messages, panicked, render, received>>

(* a variant of SubmitMessage that sends once more after a send that failed *)
SubmitMessageRetrying ==
    /\ phase = "live"
    /\ ~panicked
    /\ chat_input # None
    /\ Events < MaxEvents + 1
    /\ LET text == to_string(OutboundMessage(chat_input[1]))
           r == try_send(wss, text)
           again == try_send(r.wss, text)
       IN  /\ wss' = IF r.res THEN r.wss ELSE again.wss
           /\ attempts' = IF r.res THEN Append(attempts, Attempt(text, TRUE))
                          ELSE attempts \o <<Attempt(text, FALSE), Attempt(text, again.res)>>
           /\ chat_input' = Some(Plain(""))
    /\ ret' = FALSE
    /\ UNCHANGED <<user, phase, users, messages, panicked, render, received>>

SubmitMessage ==
    /\ phase = "live"
    /\ ~panicked
    /\ chat_input # None
    /\ Events < MaxEvents + 1
    /\ IF chat_input # None
       THEN LET text == to_string(OutboundMessage(chat_input[1]))
                r == try_send(wss, text)
            IN  /\ wss' = r.wss
                /\ attempts' = Append(attempts, Attempt(text, r.res))
                /\ chat_input' = Some(Plain(""))
       ELSE UNCHANGED <<wss, attempts, chat_input>>
    /\ ret' = FALSE
    /\ UNCHANGED <<user, phase, users, messages, panicked, render, received>>

(***************************************************************************)
(* Chat::view: the sidebar and the message list; the sender of a message   *)
(* is looked up in users, falling back to users[0].                        *)
(***************************************************************************)
Known(m) == \E i \in DOMAIN users : users[i].name = m.from

(* a variant of ViewPanics whose lookup falls back to a placeholder profile *)
ViewPanicsNever == FALSE

ViewPanics == \E i \in DOMAIN messages : ~Known(messages[i]) /\ users = <<>>

View ==
    /\ phase = "live"
    /\ ~panicked
    /\ render
    /\ IF ViewPanics
       THEN panicked' = TRUE /\ UNCHANGED <<chat_input, render>>
       ELSE /\ chat_input' = IF chat_input = None THEN Some(Plain("")) ELSE chat_input
            /\ render' = FALSE
            /\ UNCHANGED panicked
    /\ UNCHANGED <<user, phase, users, messages, wss, ret, received, attempts>>

(* the user edits the input element *)
TypeInput(t) ==
    /\ phase = "live"
    /\ ~panicked
    /\ chat_input # None
    /\ chat_input' = Some(t)
    /\ chat_input' # chat_input
    /\ UNCHANGED <<user, phase, users, messages, wss, panicked, ret, render,
                   received, attempts>>

(* the component is dropped: the bridge _producer and wss go with it *)
Destroy ==
    /\ phase = "live"
    /\ ~panicked
    /\ phase' = "ended"
    /\ UNCHANGED <<user, users, messages, chat_input, wss, panicked, ret, render,
                   received, attempts>>

(* the service's task takes the oldest queued frame to the socket *)
ChannelDrain ==
    /\ wss.buf # <<>>
    /\ wss' = [wss EXCEPT !.buf = Tail(@)]
    /\ UNCHANGED <<user, phase, users, messages, chat_input, panicked, ret, render,
                   received, attempts>>

(* the socket closes: the receiving end of wss.tx is gone *)
ChannelClose ==
    /\ phase = "live"
    /\ wss.open
    /\ wss' = [open |-> FALSE, buf |-> <<>>]
    /\ UNCHANGED <<user, phase, users, messages, chat_input, panicked, ret, render,
                   received, attempts>>

Next ==
    \/ Create
    \/ \E s \in Frames : HandleMsg(s)
    \/ SubmitMessage
    \/ View
    \/ \E t \in InputTexts : TypeInput(t)
    \/ Destroy
    \/ ChannelDrain
    \/ ChannelClose

Spec == Init /\ [][Next]_vars

(***************************************************************************)
(* The codec alone: the frames delivered are the encodings of structurally *)
(* valid envelopes (Users with a list, Register and Message with data).    *)
(***************************************************************************)
Envelopes ==
    {WebSocketMessage("Users", Some(ns), None) :
        ns \in {<<>>, <<Plain("alice"), Plain("bob")>>, <<Plain("bob"), Plain("bob")>>}}
    \cup {WebSocketMessage("Register", None, Some(d)) : d \in Usernames}
    \cup {WebSocketMessage("Message", None, Some(d)) :
            d \in {Payload("alice", "hi"), Payload("bob", "cat.gif"), Plain("hi"),
                   Plain("")}}

NextCodec ==
    \/ Create
    \/ \E e \in Envelopes : HandleMsg(to_string(e))
    \/ View

SpecCodec == Init /\ [][NextCodec]_vars

(***************************************************************************)
(* Properties.                                                             *)
(***************************************************************************)
(* the decoding of a text, tabulated once for the inbound frames *)
DecodedFrames == [s \in Frames |-> from_str_WebSocketMessage(s)]
Decoded(s) == IF s \in Frames THEN DecodedFrames[s] ELSE from_str_WebSocketMessage(s)
IsKind(s, kind) == Decoded(s).ok /\ Decoded(s).val.message_type = kind

(* the step is the handling of inbound text s *)
Handled(s) == received' = Append(received, s)

(* the step is a SubmitMessage that found the input element *)
Submitted == phase = "live" /\ Len(attempts') = Len(attempts) + 1

Last(q) == q[Len(q)]
IsPrefix(a, b) == Len(a) <= Len(b) /\ SubSeq(b, 1, Len(a)) = a

(* the payload of a Message envelope, when both codec passes succeed *)
PayloadOfText(s) ==
    IF IsKind(s, "Message") /\ Decoded(s).val.data # None
    THEN from_str_MessageData(Decoded(s).val.data[1])
    ELSE Err
PayloadOfFrames == [s \in Frames |-> PayloadOfText(s)]
PayloadOf(s) == IF s \in Frames THEN PayloadOfFrames[s] ELSE PayloadOfText(s)

(* the roster the Users events of a history h call for *)
UsersEvents(h) == {i \in DOMAIN h : IsKind(h[i], "Users")}
EventNames(s) ==
    IF Decoded(s).val.data_array = None THEN <<>> ELSE Decoded(s).val.data_array[1]
AvatarUrl(name) ==
    Plain("https://avatars.dicebear.com/api/adventurer-neutral/" \o name \o ".svg")
ExpectedRoster(h) ==
    IF UsersEvents(h) = {} THEN <<>>
    ELSE LET last == CHOOSE i \in UsersEvents(h) : \A j \in UsersEvents(h) : j <= i
             names == EventNames(h[last])
         IN  [i \in 1..Len(names) |->
                [name |-> names[i], avatar |-> AvatarUrl(names[i].w)]]

(* the log the Message envelopes of a history h call for *)
RECURSIVE ExpectedLog(_)
ExpectedLog(h) ==
    IF h = <<>> THEN <<>>
    ELSE LET rest == ExpectedLog(SubSeq(h, 1, Len(h) - 1))
             p == PayloadOf(Last(h))
         IN  IF p.ok THEN Append(rest, p.val) ELSE rest

(* C1: handling an inbound text that is not a decodable envelope (not
   parseable, or an unrecognized messageType) leaves roster and log as they
   were and does not end the session.  Refuted: the unwrap of the decode
   result panics. *)
C1_UndecodableFrameIsDiscarded ==
    [][\A s \in Frames :
         (Handled(s) /\ ~Decoded(s).ok) =>
             (users' = users /\ messages' = messages /\ ~panicked')]_vars

(* C2: in every state roster is the list derived from the most recent Users
   event alone (empty when there was none): one profile per name of its
   dataArray, in order, duplicates kept, with the templated avatar. *)
C2_RosterIsLatestUsersEvent ==
    /\ users = ExpectedRoster(received)
    /\ (received # <<>> /\ Last(received) = FrameUsersDup)
       => users = << [name |-> Plain("bob"),
                      avatar |-> Plain("https://avatars.dicebear.com/api/adventurer-neutral/bob.svg")],
                     [name |-> Plain("bob"),
                      avatar |-> Plain("https://avatars.dicebear.com/api/adventurer-neutral/bob.svg")] >>

C2_Witness ==
    /\ Len(received) >= 2
    /\ received[1] = FrameUsersAB
    /\ Last(received) = FrameUsersDup
    /\ Len(users) = 2
    /\ users[1].name = Plain("bob")

(* C3: handling a Message envelope whose data decodes to {from, message}
   appends exactly that one entry at the end of log and leaves roster
   unchanged. *)
C3_MessageAppendsOneEntry ==
    [][\A s \in Frames :
         (Handled(s) /\ PayloadOf(s).ok) =>
             /\ messages' = Append(messages, PayloadOf(s).val)
             /\ users' = users
             /\ (s = FrameMsgAlice =>
                   Last(messages') = [from |-> Plain("alice"), message |-> Plain("hi")])]_vars

C3_Witness ==
    /\ received = <<FrameUsersAB, FrameMsgBob, FrameMsgAlice>>
    /\ Len(messages) = 2
    /\ messages[1].from = Plain("bob")
    /\ messages[2] = [from |-> Plain("alice"), message |-> Plain("hi")]
    /\ users # <<>>

(* C4: log is append-only (the log before a step is a prefix of the log
   after it) and always equals, in arrival order, the payloads of the
   successfully decoded Message envelopes handled so far. *)
C4_LogIsAppendOnly ==
    /\ [](messages = ExpectedLog(received))
    /\ [][IsPrefix(messages, messages')]_vars

C4_Witness ==
    /\ received = <<FrameUsersAB, FrameMsgBob>>
    /\ Len(attempts) = 2
    /\ ~render
    /\ messages = <<[from |-> Plain("bob"), message |-> Plain("cat.gif")]>>

(* the JSON encoding of a MessagePayload {from: u, message: t} *)
EncodedPayload(u, t) ==
    Doc(JObj(<<Field("from", JStr(u)), Field("message", JStr(t))>>))

(* C5, as claimed: SubmitMessage of input t by local user u sends a Message
   envelope whose data is the JSON-encoded payload {from: u, message: t}, so
   that the envelope decodes inbound as a Message from u with body t, with
   dataArray absent.  Refuted: data is the input text itself. *)
C5_SubmitSendsEncodedPayload ==
    [][Submitted =>
         /\ Last(attempts').text =
               Tagged("message", JNull, JStr(EncodedPayload(user, chat_input[1])))
         /\ PayloadOf(Last(attempts').text) = Ok(MessageData(user, chat_input[1]))]_vars

(* C5, amended: SubmitMessage of input t sends a Message envelope whose data
   is the input text t itself, with dataArray absent (null). *)
C5_SubmitSendsRawInput ==
    [][Submitted =>
         Last(attempts').text = Tagged("message", JNull, JStr(chat_input[1]))]_vars

C5_Witness ==
    /\ Len(attempts) = 2
    /\ attempts[2] = Attempt(Tagged("message", JNull, JStr(Plain("hi"))), TRUE)

(* C6: a "users" envelope whose dataArray is null is rejected: roster and
   log stay as they were and nothing panics.  Refuted: unwrap_or_default
   reads the null as an empty list and the roster is emptied. *)
C6_UsersWithoutListIsRejected ==
    [][\A s \in Frames :
         (Handled(s) /\ IsKind(s, "Users") /\ Decoded(s).val.data_array = None) =>
             (users' = users /\ messages' = messages /\ ~panicked')]_vars

(* C7: a Message envelope whose data is null or does not decode as a
   MessagePayload is discarded: nothing is appended to log, roster is
   unchanged and the session does not crash.  Refuted: both unwraps panic. *)
C7_BadPayloadIsDiscarded ==
    [][\A s \in Frames :
         (Handled(s) /\ IsKind(s, "Message") /\ ~PayloadOf(s).ok) =>
             (users' = users /\ messages' = messages /\ ~panicked')]_vars

(* C8: creation makes exactly one send attempt, of a Register envelope with
   data = the local username and dataArray absent; it is the first attempt
   of the session, and every later attempt is a Message envelope, never a
   Register. *)
C8_RegisterOnceAtCreation ==
    /\ [](phase = "start" => attempts = <<>>)
    /\ [](phase # "start" =>
            /\ attempts # <<>>
            /\ attempts[1].text = Tagged("register", JNull, JStr(user))
            /\ \A i \in 2..Len(attempts) :
                  /\ IsKind(attempts[i].text, "Message")
                  /\ attempts[i].text # attempts[1].text)
    /\ [][(phase = "start" /\ phase' # "start") => Len(attempts') = 1]_vars

C8_Witness ==
    /\ user = Plain("bob")
    /\ Len(attempts) = 3
    /\ attempts[1] = Attempt(Tagged("register", JNull, JStr(Plain("bob"))), TRUE)
    /\ IsKind(attempts[3].text, "Message")

(* C9: when the Register send of creation fails, creation still completes:
   the session is live (subscribed) with empty roster and log, and from then
   on roster and log are what the frames handled call for, as for a session
   whose Register send succeeded. *)
C9_FailedRegisterIsNotFatal ==
    /\ [][(phase = "start" /\ phase' # "start" /\ ~attempts'[1].ok) =>
            /\ phase' = "live"
            /\ ~panicked'
            /\ users' = <<>>
            /\ messages' = <<>>
            /\ received' = <<>>]_vars
    /\ []((phase # "start" /\ ~attempts[1].ok) =>
            /\ users = ExpectedRoster(received)
            /\ messages = ExpectedLog(received))
    /\ [][\A s \in Frames :
            (Handled(s) /\ ~attempts[1].ok) =>
                panicked' = ~(Decoded(s).ok /\ (IsKind(s, "Message") => PayloadOf(s).ok))]_vars

C9_Witness ==
    /\ phase = "live"
    /\ ~panicked
    /\ ~attempts[1].ok
    /\ received = <<FrameUsersAB, FrameMsgAlice>>
    /\ Len(users) = 2
    /\ Len(messages) = 1

(* C10: SubmitMessage leaves roster and log unchanged and clears the input,
   whether the send succeeds or fails; a failed send does not panic, and the
   step returns false. *)
C10_SubmitLeavesState ==
    [][Submitted =>
         /\ users' = users
         /\ messages' = messages
         /\ received' = received
         /\ chat_input' = Some(Plain(""))
         /\ ~panicked'
         /\ ret' = FALSE
         /\ Last(attempts').ok = (wss.open /\ Len(wss.buf) < ChannelCap)]_vars

(* a send that failed on a full buffer, after which the input is empty *)
C10_Witness ==
    /\ Len(attempts) = 2
    /\ attempts[2] = Attempt(Tagged("message", JNull, JStr(Plain("hi"))), FALSE)
    /\ wss.open
    /\ Len(wss.buf) = ChannelCap
    /\ chat_input = Some(Plain(""))
    /\ users # <<>>
    /\ ret = FALSE

(* C11: each SubmitMessage makes exactly one send attempt, and a message
   whose send failed is dropped: the failed attempt leaves the channel as it
   was, and no later step puts into the channel anything but the text of a
   new attempt, made by a new SubmitMessage from the input of that moment. *)
C11_FailedSendIsDropped ==
    [][/\ attempts' # attempts => attempts' = Append(attempts, Last(attempts'))
       /\ Submitted =>
            /\ Last(attempts').text = Tagged("message", JNull, JStr(chat_input[1]))
            /\ chat_input' = Some(Plain(""))
            /\ received' = received
       /\ (attempts' # attempts /\ ~Last(attempts').ok) => wss' = wss
       /\ (attempts' # attempts /\ Last(attempts').ok) =>
            wss'.buf = Append(wss.buf, Last(attempts').text)
       /\ attempts' = attempts =>
            (wss'.buf = wss.buf \/ wss'.buf = Tail(wss.buf) \/ wss'.buf = <<>>)]_vars

(* a failed send of "hi", then a later send of another text that succeeded:
   the channel holds the later text only *)
C11_Witness ==
    /\ Len(attempts) = 3
    /\ attempts[2] = Attempt(Tagged("message", JNull, JStr(Plain("hi"))), FALSE)
    /\ attempts[3] = Attempt(Tagged("message", JNull, JStr(Plain(""))), TRUE)
    /\ wss.buf = <<attempts[3].text>>

(* the Register envelopes, with any contents of data and dataArray *)
RegisterEnvelopes ==
    {WebSocketMessage("Register", da, d) :
        da \in {None, Some(<<>>), Some(<<Plain("alice")>>)},
        d \in {None, Some(Plain("alice")), Some(Payload("alice", "hi"))}}

(* C12: handling an inbound Register envelope, whatever its data and
   dataArray, changes neither roster nor log, does not panic and returns
   false. *)
C12_InboundRegisterIsNoOp ==
    [][\A s \in Frames :
         (Handled(s) /\ IsKind(s, "Register")) =>
             /\ users' = users
             /\ messages' = messages
             /\ ~panicked'
             /\ ret' = FALSE
             /\ render' = render
             /\ \A e \in RegisterEnvelopes :
                      HandleMsgResult(users, messages, to_string(e)) =
                          [panic |-> FALSE, users |-> users, messages |-> messages,
                           ret |-> FALSE]]_vars

C12_Witness ==
    /\ received = <<FrameUsersAB, FrameMsgAlice, FrameRegister>>
    /\ Len(users) = 2
    /\ Len(messages) = 1
    /\ ~panicked
    /\ ret = FALSE

(* the text is a JSON object with the members messageType, dataArray and
   data, in this order, the first one of the three lowercase tags *)
WireShape(text) ==
    /\ Len(text.j) = 1
    /\ text.j[1].t = "obj"
    /\ [i \in DOMAIN text.j[1].f |-> text.j[1].f[i].k] = <<"messageType", "dataArray", "data">>
    /\ text.j[1].f[1].v \in {JStr(Plain("users")), JStr(Plain("register")),
                             JStr(Plain("message"))}

(* C13: for every structurally valid envelope e, decode(encode(e)) = e; the
   encoding names the members messageType / dataArray / data and writes the
   tag as one of "users", "register", "message", and a tag in another case
   is not decoded. *)
C13_RoundTrip ==
    [][\A e \in Envelopes :
         Handled(to_string(e)) =>
             /\ from_str_WebSocketMessage(Last(received')) = Ok(e)
             /\ WireShape(Last(received'))
             /\ Last(received').j[1].f[1].v = JStr(Plain(
                   CASE e.message_type = "Users" -> "users"
                     [] e.message_type = "Register" -> "register"
                     [] e.message_type = "Message" -> "message"))
             /\ e.message_type = "Users" =>
                   [i \in DOMAIN users' |-> users'[i].name] = e.data_array[1]
             /\ to_string(WebSocketMessage("Users", Some(<<Plain("alice"), Plain("bob")>>), None))
                   = FrameUsersAB
             /\ to_string(WebSocketMessage("Message", None, Some(Payload("alice", "hi"))))
                   = FrameMsgAlice
             /\ ~from_str_WebSocketMessage(FrameBadTag).ok]_vars

C13_Witness ==
    /\ Len(received) = 3
    /\ received[1] = to_string(WebSocketMessage("Users", Some(<<Plain("bob"), Plain("bob")>>), None))
    /\ received[2] = to_string(WebSocketMessage("Register", None, Some(Plain("bob"))))
    /\ received[3] = to_string(WebSocketMessage("Message", None, Some(Payload("bob", "cat.gif"))))
    /\ Len(users) = 2
    /\ messages = <<[from |-> Plain("bob"), message |-> Plain("cat.gif")]>>

(* C14: once the session has ended (the component, its bridge to the event
   bus and its transport handle dropped), it stays ended and no frame is
   delivered to it: roster and log keep the values they had at teardown.
   Teardown itself changes neither.  A delivery and the teardown are single
   steps of the one execution context, so a delivery that started before the
   teardown has completed before it. *)
C14_NoMutationAfterEnd ==
    [][/\ phase = "ended" =>
             /\ phase' = "ended"
             /\ users' = users /\ messages' = messages
             /\ received' = received /\ attempts' = attempts
             /\ panicked' = panicked
       /\ (phase = "live" /\ phase' = "ended") =>
             /\ users' = users /\ messages' = messages
             /\ received' = received]_vars

C14_Witness ==
    /\ phase = "ended"
    /\ received = <<FrameUsersAB, FrameMsgAlice>>
    /\ Len(users) = 2 /\ Len(messages) = 1
    /\ Events < MaxEvents + 1
    /\ wss.open /\ wss.buf # <<>>

(* C15 as stated: for every handled frame that does not panic, update
   returns true exactly when users or messages changed. *)
C15_ReturnsWhetherStateChanged ==
    [][\A s \in Frames :
         (Handled(s) /\ ~panicked') =>
             (ret' = TRUE <=> (users' # users \/ messages' # messages))]_vars

(* C15 amended: update returns true exactly for a Users envelope and for a
   Message envelope whose payload decodes, whether or not the roster
   changed; so every step that changes users or messages returns true, and
   a step that returns false changes neither.  A step that panics returns
   nothing and changes neither. *)
C15_ReturnsTrueOnUsersAndMessage ==
    [][\A s \in Frames :
         Handled(s) =>
             /\ panicked' => (users' = users /\ messages' = messages /\ ret' = ret)
             /\ ~panicked' =>
                   /\ ret' = (IsKind(s, "Users") \/ (IsKind(s, "Message") /\ PayloadOf(s).ok))
                   /\ (users' # users \/ messages' # messages) => ret' = TRUE
                   /\ ret' = FALSE => (users' = users /\ messages' = messages)]_vars

(* the same Users frame handled twice: the second step leaves the roster as
   it was and still returns true *)
C15_Witness ==
    /\ received = <<FrameUsersAB, FrameMsgAlice, FrameUsersAB>>
    /\ ret = TRUE
    /\ Len(users) = 2 /\ Len(messages) = 1
    /\ ~panicked

(* a step of view: nothing is delivered or sent, and the view either panics
   or completes the pending render *)
ViewStep ==
    /\ received' = received /\ attempts' = attempts
    /\ ~panicked /\ render
    /\ panicked' \/ ~render'

(* C16: a live session can hold a non-empty log with an empty roster, and
   then a render is pending; a view of such a state faults on users[0], and
   a view of any other state does not fault. *)
C16_EmptyRosterFallbackFaults ==
    /\ []((phase = "live" /\ ~panicked /\ users = <<>> /\ messages # <<>>) => render)
    /\ [][ViewStep => (panicked' <=> (users = <<>> /\ messages # <<>>))]_vars

(* an empty Users list after a message: the next view has faulted *)
C16_Witness ==
    /\ received = <<FrameUsersAB, FrameMsgAlice, FrameUsersEmpty>>
    /\ users = <<>> /\ Len(messages) = 1
    /\ panicked

(* C17: handling a Users frame leaves messages as they were, whatever the
   list of names, also when the sender of a message held is no longer in
   the new roster. *)
C17_UsersLeavesLog ==
    [][\A s \in Frames :
         (Handled(s) /\ IsKind(s, "Users")) =>
             /\ messages' = messages
             /\ ~panicked']_vars

(* alice's message is kept when the roster becomes bob, bob *)
C17_Witness ==
    /\ received = <<FrameUsersAB, FrameMsgAlice, FrameUsersDup>>
    /\ messages = <<[from |-> Plain("alice"), message |-> Plain("hi")]>>
    /\ Len(users) = 2
    /\ \A i \in DOMAIN users : users[i].name = Plain("bob")

=============================================================================
